---- MODULE Spec2Model ----
(***************************************************************************)
(* pumpwood-services: the transport wrapper (ApiService), the result       *)
(* normalising combinator (safeAwait) and the operation helpers, as a      *)
(* state machine over helper calls made on one shared client.              *)
(*                                                                         *)
(* Strings are sequences of one-character strings, so that the slash       *)
(* stripping, the interpolation and the substring tests of the source are  *)
(* computed character by character.                                        *)
(***************************************************************************)
EXTENDS Integers, Sequences, FiniteSets, TLC

\* ------------------------------------------------------------------ bounds
\* Call slots of the caller; the sequential specification uses SeqSlots.
NumSlots == 2
\* The largest primary key the caller passes (two decimal digits).
MaxPk == 12

Slots == 1..NumSlots
SeqSlots == {c \in Slots : c <= 1}

\* ------------------------------------------------------- string literals
MSG_BASEURL_MISSING ==
    <<"A","p","i","S","e","r","v","i","c","e",":"," ","b","a","s","e",
      "U","r","l"," ","i","s"," ","m","i","s","s","i","n","g","."," ",
      "E","n","s","u","r","e"," ","i","t"," ","i","s"," ","p","r","o",
      "v","i","d","e","d"," ","w","h","e","n"," ","c","r","e","a","t",
      "i","n","g"," ","t","h","e"," ","A","p","i","S","e","r","v","i",
      "c","e"," ","i","n","s","t","a","n","c","e",".">>
MSG_API_ERROR ==
    <<"A","P","I"," ","E","r","r","o","r",":"," ">>
MSG_FILE_REQUIRED ==
    <<"U","p","l","o","a","d","F","i","l","e","S","e","r","v","i","c",
      "e",":"," ","f","i","l","e"," ","i","s"," ","r","e","q","u","i",
      "r","e","d">>
MSG_FILEFIELD_REQUIRED ==
    <<"R","e","t","r","i","e","v","e","F","i","l","e","S","e","r","v",
      "i","c","e",":"," ","f","i","l","e","F","i","e","l","d"," ","i",
      "s"," ","r","e","q","u","i","r","e","d">>
MSG_MODELCLASS_REQUIRED ==
    <<"m","o","d","e","l","C","l","a","s","s"," ","i","s"," ","r","e",
      "q","u","i","r","e","d">>
MSG_ACTIONNAME_REQUIRED ==
    <<"a","c","t","i","o","n","N","a","m","e"," ","i","s"," ","r","e",
      "q","u","i","r","e","d">>
MSG_NOT_AN_OBJECT ==
    <<"C","a","n","n","o","t"," ","r","e","a","d"," ","p","r","o","p",
      "e","r","t","i","e","s"," ","o","f"," ","n","u","l","l">>
MSG_CIRCULAR ==
    <<"C","o","n","v","e","r","t","i","n","g"," ","c","i","r","c","u",
      "l","a","r"," ","s","t","r","u","c","t","u","r","e"," ","t","o",
      " ","J","S","O","N">>
MSG_FAILED_TO_FETCH ==
    <<"F","a","i","l","e","d"," ","t","o"," ","f","e","t","c","h">>
MSG_BODY_READ ==
    <<"t","e","r","m","i","n","a","t","e","d">>
MSG_UNEXPECTED_TOKEN ==
    <<"U","n","e","x","p","e","c","t","e","d"," ","t","o","k","e","n">>
STR_TOKEN ==
    <<"T","o","k","e","n"," ">>
STR_APPLICATION_JSON ==
    <<"a","p","p","l","i","c","a","t","i","o","n","/","j","s","o","n">>
STR_FILE_FIELD ==
    <<"f","i","l","e","-","f","i","e","l","d">>
STR_FILE ==
    <<"f","i","l","e">>
STR_LIST ==
    <<"l","i","s","t">>
STR_RETRIEVE ==
    <<"r","e","t","r","i","e","v","e">>
STR_RETRIEVE_FILE ==
    <<"r","e","t","r","i","e","v","e","-","f","i","l","e">>
STR_SAVE ==
    <<"s","a","v","e">>
STR_DELETE ==
    <<"d","e","l","e","t","e">>
STR_ACTIONS ==
    <<"a","c","t","i","o","n","s">>
STR_NULL ==
    <<"n","u","l","l">>
STR_TRUE ==
    <<"t","r","u","e">>
STR_FALSE ==
    <<"f","a","l","s","e">>
STR_DASH ==
    <<" ","-"," ">>

\* ------------------------------------------------------------- JS values
Null == [t |-> "null"]
Undefined == [t |-> "undefined"]
JNum(n) == [t |-> "number", n |-> n]
JBool(b) == [t |-> "boolean", b |-> b]
JStr(s) == [t |-> "string", s |-> s]
\* An object literal: its own properties in insertion order, <<key, value>>.
JObj(f) == [t |-> "object", f |-> f, cyc |-> FALSE]
\* An object that refers to itself.
Circular == [t |-> "object", f |-> <<>>, cyc |-> TRUE]
\* An Error object; oid is its identity (the call and the place that made it).
JsError(oid, name, msg) == [t |-> "error", oid |-> oid, name |-> name, msg |-> msg]
\* A File handed in by the caller.
FileObj(fid) == [t |-> "file", fid |-> fid]
\* new FormData() after the appends: its parts in order, <<name, value>>.
FormData(parts) == [t |-> "formdata", parts |-> parts]
\* The IFileData payload of fileRequest.
FileData(data, ctype) == [t |-> "filedata", data |-> data, contentType |-> ctype]
\* A reference to the shared ApiService instance.
ApiRef == [t |-> "ApiService"]

\* ToBoolean: what if (x), !x, x || y and x ? a : b test.
Truthy(v) ==
    CASE v.t = "null" -> FALSE
      [] v.t = "undefined" -> FALSE
      [] v.t = "number" -> v.n # 0
      [] v.t = "boolean" -> v.b
      [] v.t = "string" -> v.s # <<>>
      [] OTHER -> TRUE

IsNullish(v) == v.t \in {"null", "undefined"}

\* ------------------------------------------------------------ strings
DIGITS == <<"0","1","2","3","4","5","6","7","8","9">>

RECURSIVE ToDec(_)
\* String(n) of a non-negative integer: its decimal digits.
ToDec(n) == IF n < 10 THEN <<DIGITS[n + 1]>> ELSE ToDec(n \div 10) \o <<DIGITS[(n % 10) + 1]>>

Contains(s, sub) ==
    \E i \in 0..(Len(s) - Len(sub)) : SubSeq(s, i + 1, i + Len(sub)) = sub

\* The base url used as it is given.
StripTrailingSlashNone(s) == s

\* s.replace(/\/$/, ""): one trailing slash removed.
StripTrailingSlash(s) ==
    IF Len(s) > 0 /\ s[Len(s)] = "/" THEN SubSeq(s, 1, Len(s) - 1) ELSE s

\* s.replace(/^\//, ""): one leading slash removed.
StripLeadingSlash(s) ==
    IF Len(s) > 0 /\ s[1] = "/" THEN SubSeq(s, 2, Len(s)) ELSE s

RECURSIVE Join(_, _)
\* parts.join(sep)
Join(parts, sep) ==
    IF parts = <<>> THEN <<>>
    ELSE IF Len(parts) = 1 THEN parts[1]
    ELSE parts[1] \o sep \o Join(Tail(parts), sep)

\* --------------------------------------------------------------- JSON
RECURSIVE JsonStringify(_)
\* JSON.stringify of a value that can be serialized.
JsonStringify(v) ==
    CASE v.t = "null" -> STR_NULL
      [] v.t = "number" -> ToDec(v.n)
      [] v.t = "boolean" -> (IF v.b THEN STR_TRUE ELSE STR_FALSE)
      [] v.t = "string" -> <<"\"">> \o v.s \o <<"\"">>
      [] v.t = "object" ->
           <<"{">> \o
           Join([i \in 1..Len(v.f) |->
                    <<"\"">> \o v.f[i][1] \o <<"\"", ":">> \o JsonStringify(v.f[i][2])],
                <<",">>) \o
           <<"}">>

\* JSON.stringify throws a TypeError on a circular structure.
StringifyThrows(v) == v.t = "object" /\ v.cyc

\* The JSON values a backend body may hold.
JsonValues ==
    {Null, JNum(0), JNum(1), JBool(FALSE), JStr(<<>>), JObj(<<>>), JObj(<< <<<<"i","d">>, JNum(1)>> >>)}

\* JSON.parse: the value whose serialization the text is, if there is one.
JsonParses(text) == \E v \in JsonValues : JsonStringify(v) = text
JsonParse(text) == CHOOSE v \in JsonValues : JsonStringify(v) = text

\* ------------------------------------------------------- URL building
UNRESERVED ==
    {"a","b","c","d","e","f","g","h","i","j","k","l","m","n","o","p","q","r","s","t",
     "u","v","w","x","y","z","0","1","2","3","4","5","6","7","8","9","*","-",".","_"}

\* application/x-www-form-urlencoded byte serialization of one character.
EncodeChar(ch) ==
    CASE ch \in UNRESERVED -> <<ch>>
      [] ch = " " -> <<"+">>
      [] ch = "&" -> <<"%","2","6">>
      [] ch = "=" -> <<"%","3","D">>
      [] ch = "/" -> <<"%","2","F">>
      [] ch = "?" -> <<"%","3","F">>

RECURSIVE UrlEncode(_)
UrlEncode(s) == IF s = <<>> THEN <<>> ELSE EncodeChar(s[1]) \o UrlEncode(Tail(s))

\* A canonical array index ("0", "7", "12"): such keys are enumerated first.
IsIndexKey(k) ==
    /\ Len(k) > 0
    /\ \A i \in 1..Len(k) : \E d \in 1..10 : DIGITS[d] = k[i]
    /\ (Len(k) > 1 => k[1] # "0")

RECURSIVE ParseDec(_)
ParseDec(k) ==
    IF k = <<>> THEN 0
    ELSE 10 * ParseDec(SubSeq(k, 1, Len(k) - 1))
         + ((CHOOSE d \in 1..10 : DIGITS[d] = k[Len(k)]) - 1)

\* The positions of the properties of f in the order Object.keys enumerates
\* them: array indices ascending, then the other keys in insertion order.
RECURSIVE IndexKeysFrom(_, _)
IndexKeysFrom(f, left) ==
    IF left = {} THEN <<>>
    ELSE LET i == CHOOSE x \in left : \A y \in left : ParseDec(f[x][1]) <= ParseDec(f[y][1])
         IN <<i>> \o IndexKeysFrom(f, left \ {i})

\* Object.keys taken as plain insertion order.
OwnKeyOrderInsertion(f) == [i \in 1..Len(f) |-> i]

OwnKeyOrder(f) ==
    IndexKeysFrom(f, {i \in 1..Len(f) : IsIndexKey(f[i][1])})
    \o SelectSeq([i \in 1..Len(f) |-> i], LAMBDA i : ~IsIndexKey(f[i][1]))

\* new URLSearchParams(queryParams).toString()
QueryString(queryParams) ==
    LET f == queryParams.f
        ord == OwnKeyOrder(f)
    IN Join([j \in 1..Len(ord) |->
                UrlEncode(f[ord[j]][1]) \o <<"=">> \o UrlEncode(f[ord[j]][2].s)],
            <<"&">>)

\* BuildUrl appending the query string whenever queryParams is truthy.
BuildUrlAlwaysQuery(baseUrl, endpoint, queryParams) ==
    LET url == StripTrailingSlash(baseUrl) \o <<"/">> \o StripLeadingSlash(endpoint)
    IN IF Truthy(queryParams)
       THEN url \o <<"?">> \o QueryString(queryParams)
       ELSE url

\* The url of a transport primitive: base and endpoint joined, then the
\* query string when queryParams is truthy and has a key.
BuildUrl(baseUrl, endpoint, queryParams) ==
    LET url == StripTrailingSlash(baseUrl) \o <<"/">> \o StripLeadingSlash(endpoint)
    IN IF Truthy(queryParams) /\ Len(queryParams.f) > 0
       THEN url \o <<"?">> \o QueryString(queryParams)
       ELSE url

\* ------------------------------------------------------ caller's inputs
TOKEN == <<"1","2","3">>
TEST_TOKEN == <<"t","-","1","2","3">>
\* The baseUrl a client is constructed with: absent, empty, without and
\* with a trailing slash.
BaseUrls == {Undefined, JStr(<<>>), JStr(<<"h">>), JStr(<<"h","/">>)}
\* The clients of the model, each constructed with a baseUrl and a token.
Clients ==
    {[baseUrl |-> b, token |-> IF b = JStr(<<"h","/">>) THEN TEST_TOKEN ELSE TOKEN] :
        b \in BaseUrls}

ApiArgs == {ApiRef, Null}
ModelClasses == {<<>>, <<"m">>}
ActionNames == {<<>>, <<"a">>}
Pks == {0, MaxPk}
BodyArgs ==
    {Undefined, Null, JNum(0), JObj(<<>>), JObj(<< <<<<"k">>, JNum(1)>> >>), Circular}
\* queryParams: absent, empty, one key, two keys, and two keys of which the
\* second inserted is an array index.
QueryParamArgs ==
    {Undefined, JObj(<<>>),
     JObj(<< <<<<"a">>, JStr(<<"1">>)>> >>),
     JObj(<< <<<<"b">>, JStr(<<"2">>)>>, <<<<"a">>, JStr(<<"1">>)>> >>),
     JObj(<< <<<<"b">>, JStr(<<"2">>)>>, <<<<"1">>, JStr(<<"x">>)>> >>)}
FileArgs == {Null, Undefined, FileObj("F")}
JsonDataArgs == {JObj(<< <<<<"k">>, JNum(1)>> >>), Circular}
FileFieldArgs == {Undefined, JStr(<<>>), JStr(STR_FILE), JStr(<<"p">>)}

\* The arguments of a helper call; a helper reads only its own parameters.
NoArgs ==
    [api |-> Undefined, modelClass |-> <<>>, pk |-> 0, actionName |-> <<>>,
     body |-> Undefined, queryParams |-> Undefined, file |-> Undefined,
     jsonData |-> Undefined, fileField |-> Undefined,
     method |-> "", endpoint |-> <<>>]

\* What a caller of the transport primitives themselves passes: the base
\* url of its client and the endpoint, each with no, one or two slashes at
\* the seam.
JoinBaseUrls == {JStr(<<"h">>), JStr(<<"h","/">>), JStr(<<"h","/","/">>)}
Endpoints == {<<"p">>, <<"/","p">>, <<"/","/","p">>, <<>>, <<"/">>}
Methods == {"GET", "POST"}
PrimitiveBodyArgs == {Undefined, JObj(<<>>)}

\* ------------------------------------------------- backend and network
Statuses == {200, 204, 299, 300, 404}
StatusText(s) == IF s \in 200..299 THEN <<"O","K">> ELSE <<"N","o">>

\* A response body: what text() yields, what blob() holds, the content type,
\* and whether reading the body stream fails.  The last but one is binary:
\* text() decodes it to two replacement characters.
Body(text, bytes, broken) ==
    [text |-> text, bytes |-> bytes, ctype |-> <<"t","/","p">>, broken |-> broken]
Bodies ==
    {Body(<<>>, <<>>, FALSE),
     Body(STR_NULL, <<110, 117, 108, 108>>, FALSE),
     Body(<<"{","}">>, <<123, 125>>, FALSE),
     Body(<<"{","\"","i","d","\"",":","1","}">>, <<123, 34, 105, 100, 34, 58, 49, 125>>, FALSE),
     Body(<<"N","F">>, <<78, 70>>, FALSE),
     [Body(<<"?","?">>, <<0, 255>>, FALSE) EXCEPT !.ctype = <<"a","/","o">>],
     Body(<<>>, <<>>, TRUE)}

Responses ==
    {[status |-> s, statusText |-> StatusText(s), body |-> b] : s \in Statuses, b \in Bodies}

\* What fetch may reject with: a TypeError of the HTTP stack, or (a stubbed
\* fetch) a falsy reason.
RejectReasons(c) ==
    {JsError(<<c, "fetch">>, "TypeError", MSG_FAILED_TO_FETCH), Undefined}

\* response.ok taken as status < 400.
OkBelow400(resp) == resp.status \in 200..399

\* response.ok
Ok(resp) == resp.status \in 200..299

\* --------------------------------------------------- promise outcomes
Pending == [state |-> "pending"]
Resolved(v) == [state |-> "resolved", v |-> v]
Rejected(e) == [state |-> "rejected", v |-> e]

\* ------------------------------------------------------------ safeAwait
\* safeAwait copying the caught error into a new Error.
safeAwaitWraps(p) ==
    IF p.state = "resolved" THEN <<p.v, Null>>
    ELSE IF p.v.t = "error"
         THEN <<Null, JsError(<<0, "safeAwait">>, p.v.name, p.v.msg)>>
         ELSE <<Null, p.v>>

\* try { return [await promise, null] } catch (error) { return [null, error] }
safeAwait(p) ==
    IF p.state = "resolved" THEN <<p.v, Null>> ELSE <<Null, p.v>>

\* ---------------------------------------------- ApiService: before fetch
\* The synchronous part of a transport primitive ends by throwing or by
\* calling fetch; events lists what it did, in order.
Throws(e, events) == [kind |-> "throw", err |-> e, events |-> events]
Fetches(req, events) == [kind |-> "fetch", req |-> req, events |-> events]

\* The baseUrl test as this.baseUrl === undefined.
BaseUrlMissingOnlyAbsent(baseUrl) == baseUrl.t = "undefined"

\* if (!this.baseUrl)
BaseUrlMissing(baseUrl) == ~Truthy(baseUrl)

ConfigError(c) == JsError(<<c, "baseUrl">>, "Error", MSG_BASEURL_MISSING)

\* request keeping a count of the calls in its url.
requestNumbered(c, this, method, endpoint, body, queryParams) ==
    IF BaseUrlMissing(this.baseUrl)
    THEN Throws(ConfigError(c), <<"baseUrl">>)
    ELSE IF Truthy(body) /\ StringifyThrows(body)
    THEN Throws(JsError(<<c, "JSON.stringify">>, "TypeError", MSG_CIRCULAR), <<"baseUrl">>)
    ELSE Fetches([method |-> method,
                  url |-> BuildUrl(this.baseUrl.s, endpoint, queryParams) \o ToDec(c),
                  headers |-> [Authorization |-> STR_TOKEN \o this.token,
                               ContentType |-> STR_APPLICATION_JSON],
                  body |-> IF Truthy(body) THEN JStr(JsonStringify(body)) ELSE Undefined],
                 <<"baseUrl", "fetch">>)

\* request never setting options.body.
requestNoBody(c, this, method, endpoint, body, queryParams) ==
    IF BaseUrlMissing(this.baseUrl)
    THEN Throws(ConfigError(c), <<"baseUrl">>)
    ELSE Fetches([method |-> method,
                  url |-> BuildUrl(this.baseUrl.s, endpoint, queryParams),
                  headers |-> [Authorization |-> STR_TOKEN \o this.token,
                               ContentType |-> STR_APPLICATION_JSON],
                  body |-> Undefined],
                 <<"baseUrl", "fetch">>)

\* ApiService.request up to its await fetch(url, options).
request(c, this, method, endpoint, body, queryParams) ==
    IF BaseUrlMissing(this.baseUrl)
    THEN Throws(ConfigError(c), <<"baseUrl">>)
    ELSE IF Truthy(body) /\ StringifyThrows(body)
    THEN Throws(JsError(<<c, "JSON.stringify">>, "TypeError", MSG_CIRCULAR), <<"baseUrl">>)
    ELSE Fetches([method |-> method,
                  url |-> BuildUrl(this.baseUrl.s, endpoint, queryParams),
                  headers |-> [Authorization |-> STR_TOKEN \o this.token,
                               ContentType |-> STR_APPLICATION_JSON],
                  body |-> IF Truthy(body) THEN JStr(JsonStringify(body)) ELSE Undefined],
                 <<"baseUrl", "fetch">>)

\* uploadRequest sending the headers of request.
uploadRequestJsonHeaders(c, this, endpoint, formData, queryParams) ==
    IF BaseUrlMissing(this.baseUrl)
    THEN Throws(ConfigError(c), <<"baseUrl">>)
    ELSE Fetches([method |-> "POST",
                  url |-> BuildUrl(this.baseUrl.s, endpoint, queryParams),
                  headers |-> [Authorization |-> STR_TOKEN \o this.token,
                               ContentType |-> STR_APPLICATION_JSON],
                  body |-> formData],
                 <<"baseUrl", "fetch">>)

\* ApiService.uploadRequest up to its await fetch(url, options).
uploadRequest(c, this, endpoint, formData, queryParams) ==
    IF BaseUrlMissing(this.baseUrl)
    THEN Throws(ConfigError(c), <<"baseUrl">>)
    ELSE Fetches([method |-> "POST",
                  url |-> BuildUrl(this.baseUrl.s, endpoint, queryParams),
                  headers |-> [Authorization |-> STR_TOKEN \o this.token],
                  body |-> formData],
                 <<"baseUrl", "fetch">>)

\* ApiService.fileRequest up to its await fetch(url, options).
fileRequest(c, this, endpoint, queryParams) ==
    IF BaseUrlMissing(this.baseUrl)
    THEN Throws(ConfigError(c), <<"baseUrl">>)
    ELSE Fetches([method |-> "GET",
                  url |-> BuildUrl(this.baseUrl.s, endpoint, queryParams),
                  headers |-> [Authorization |-> STR_TOKEN \o this.token],
                  body |-> Undefined],
                 <<"baseUrl", "fetch">>)

\* ----------------------------------------------- ApiService: after fetch
\* What the primitive settles with, and the body methods it called.
Settles(outcome, reads) == [outcome |-> outcome, reads |-> reads]

BodyReadError(c) == JsError(<<c, "body">>, "TypeError", MSG_BODY_READ)
SyntaxError(c) == JsError(<<c, "json">>, "SyntaxError", MSG_UNEXPECTED_TOKEN)

\* The error message without the status text.
ApiErrorMessageNoStatusText(resp) ==
    MSG_API_ERROR \o ToDec(resp.status) \o STR_DASH \o resp.body.text

\* `API Error: ${response.status} ${response.statusText} - ${errorText}`
ApiErrorMessage(resp) ==
    MSG_API_ERROR \o ToDec(resp.status) \o <<" ">> \o resp.statusText
    \o STR_DASH \o resp.body.text

\* if (!response.ok) { const errorText = await response.text(); throw ... }
NotOk(c, resp) ==
    IF resp.body.broken
    THEN Settles(Rejected(BodyReadError(c)), {"text"})
    ELSE Settles(Rejected(JsError(<<c, "api">>, "Error", ApiErrorMessage(resp))), {"text"})

\* await response.json()
json(c, resp) ==
    IF resp.body.broken THEN Settles(Rejected(BodyReadError(c)), {"json"})
    ELSE IF ~JsonParses(resp.body.text) THEN Settles(Rejected(SyntaxError(c)), {"json"})
    ELSE Settles(Resolved(JsonParse(resp.body.text)), {"json"})

\* jsonAfterFetch without the 204 case.
jsonAfterFetchNo204(c, resp) ==
    IF ~Ok(resp) THEN NotOk(c, resp) ELSE json(c, resp)

\* jsonAfterFetch treating every 2xx as 204.
jsonAfterFetchNoParse(c, resp) ==
    IF ~Ok(resp) THEN NotOk(c, resp) ELSE Settles(Resolved(Null), {})

\* ApiService.request and ApiService.uploadRequest after fetch resolved.
jsonAfterFetch(c, resp) ==
    IF ~Ok(resp) THEN NotOk(c, resp)
    ELSE IF resp.status = 204 THEN Settles(Resolved(Null), {})
    ELSE json(c, resp)

\* fileRequest leaving the content type out.
fileAfterFetchNoType(c, resp) ==
    IF ~Ok(resp) THEN NotOk(c, resp)
    ELSE IF resp.body.broken THEN Settles(Rejected(BodyReadError(c)), {"blob"})
    ELSE Settles(Resolved(FileData(resp.body.bytes, <<>>)), {"blob"})

\* ApiService.fileRequest after fetch resolved.
fileAfterFetch(c, resp) ==
    IF ~Ok(resp) THEN NotOk(c, resp)
    ELSE IF resp.body.broken THEN Settles(Rejected(BodyReadError(c)), {"blob"})
    ELSE Settles(Resolved(FileData(resp.body.bytes, resp.body.ctype)), {"blob"})

\* ------------------------------------------------------ operation helpers
\* The synchronous part of a helper ends by returning a pair (validation),
\* by throwing out of the helper, or by awaiting a transport primitive.
Returns(pair, events) == [kind |-> "return", result |-> pair, events |-> events]
Rejects(e, events) == [kind |-> "reject", err |-> e, events |-> events]
Awaits(prim, step, events) ==
    [kind |-> "await", prim |-> prim, step |-> step, events |-> events \o step.events]

\* api.request, api.uploadRequest or api.fileRequest read on null/undefined.
NoApiError(c) == JsError(<<c, "api">>, "TypeError", MSG_NOT_AN_OBJECT)

ListPath(modelClass) == <<"/">> \o modelClass \o <<"/">> \o STR_LIST \o <<"/">>
RetrievePath(modelClass, pk) ==
    <<"/">> \o modelClass \o <<"/">> \o STR_RETRIEVE \o <<"/">> \o ToDec(pk) \o <<"/">>
RetrieveFilePath(modelClass, pk) ==
    <<"/">> \o modelClass \o <<"/">> \o STR_RETRIEVE_FILE \o <<"/">> \o ToDec(pk) \o <<"/">>
\* SavePath without the closing slash.
SavePathNoSlash(modelClass) == <<"/">> \o modelClass \o <<"/">> \o STR_SAVE
SavePath(modelClass) == <<"/">> \o modelClass \o <<"/">> \o STR_SAVE \o <<"/">>
DeletePath(modelClass, pk) ==
    <<"/">> \o modelClass \o <<"/">> \o STR_DELETE \o <<"/">> \o ToDec(pk) \o <<"/">>
ActionPath(modelClass, actionName, pk) ==
    <<"/">> \o modelClass \o <<"/">> \o STR_ACTIONS \o <<"/">> \o actionName
    \o <<"/">> \o ToDec(pk) \o <<"/">>

\* ListService handing its body on as it is given.
ListServiceNoDefault(c, this, a) ==
    IF IsNullish(a.api) THEN Rejects(NoApiError(c), <<>>)
    ELSE Awaits("request",
                request(c, this, "POST", ListPath(a.modelClass), a.body,
                        IF Truthy(a.queryParams) THEN a.queryParams ELSE Undefined),
                <<>>)

ListService(c, this, a) ==
    LET requestBody == IF Truthy(a.body) THEN a.body ELSE JObj(<<>>)
    IN IF IsNullish(a.api) THEN Rejects(NoApiError(c), <<>>)
       ELSE IF Truthy(a.queryParams)
       THEN Awaits("request",
                   request(c, this, "POST", ListPath(a.modelClass), requestBody, a.queryParams),
                   <<>>)
       ELSE Awaits("request",
                   request(c, this, "POST", ListPath(a.modelClass), requestBody, Undefined),
                   <<>>)

RetrieveService(c, this, a) ==
    IF IsNullish(a.api) THEN Rejects(NoApiError(c), <<>>)
    ELSE IF Truthy(a.queryParams)
    THEN Awaits("request",
                request(c, this, "GET", RetrievePath(a.modelClass, a.pk), Undefined,
                        a.queryParams),
                <<>>)
    ELSE Awaits("request",
                request(c, this, "GET", RetrievePath(a.modelClass, a.pk), Undefined,
                        Undefined),
                <<>>)

\* RetrieveFileService validating fileField after the client's baseUrl.
RetrieveFileServiceLateValidation(c, this, a) ==
    LET fileField == IF a.fileField.t = "undefined" THEN JStr(STR_FILE) ELSE a.fileField
        queryParams == JObj(<< <<STR_FILE_FIELD, fileField>> >>)
    IN IF IsNullish(a.api) THEN Rejects(NoApiError(c), <<>>)
       ELSE IF BaseUrlMissing(this.baseUrl)
       THEN Awaits("fileRequest",
                   fileRequest(c, this, RetrieveFilePath(a.modelClass, a.pk), queryParams),
                   <<>>)
       ELSE IF ~Truthy(fileField)
       THEN Returns(<<Null, JsError(<<c, "fileField">>, "Error", MSG_FILEFIELD_REQUIRED)>>,
                    <<"baseUrl", "validate">>)
       ELSE Awaits("fileRequest",
                   fileRequest(c, this, RetrieveFilePath(a.modelClass, a.pk), queryParams),
                   <<"validate">>)

\* RetrieveFileService without the default value of fileField.
RetrieveFileServiceNoDefault(c, this, a) ==
    LET queryParams == JObj(<< <<STR_FILE_FIELD, a.fileField>> >>)
    IN IF ~Truthy(a.fileField)
       THEN Returns(<<Null, JsError(<<c, "fileField">>, "Error", MSG_FILEFIELD_REQUIRED)>>,
                    <<"validate">>)
       ELSE IF IsNullish(a.api) THEN Rejects(NoApiError(c), <<"validate">>)
       ELSE Awaits("fileRequest",
                   fileRequest(c, this, RetrieveFilePath(a.modelClass, a.pk), queryParams),
                   <<"validate">>)

RetrieveFileService(c, this, a) ==
    LET fileField == IF a.fileField.t = "undefined" THEN JStr(STR_FILE) ELSE a.fileField
        queryParams == JObj(<< <<STR_FILE_FIELD, fileField>> >>)
    IN IF ~Truthy(fileField)
       THEN Returns(<<Null, JsError(<<c, "fileField">>, "Error", MSG_FILEFIELD_REQUIRED)>>,
                    <<"validate">>)
       ELSE IF IsNullish(a.api) THEN Rejects(NoApiError(c), <<"validate">>)
       ELSE Awaits("fileRequest",
                   fileRequest(c, this, RetrieveFilePath(a.modelClass, a.pk), queryParams),
                   <<"validate">>)

\* SaveService not handing its queryParams on.
SaveServiceNoQuery(c, this, a) ==
    IF IsNullish(a.api) THEN Rejects(NoApiError(c), <<>>)
    ELSE Awaits("request",
                request(c, this, "POST", SavePath(a.modelClass), a.body, Undefined),
                <<>>)

SaveService(c, this, a) ==
    IF IsNullish(a.api) THEN Rejects(NoApiError(c), <<>>)
    ELSE IF Truthy(a.queryParams)
    THEN Awaits("request",
                request(c, this, "POST", SavePath(a.modelClass), a.body, a.queryParams),
                <<>>)
    ELSE Awaits("request",
                request(c, this, "POST", SavePath(a.modelClass), a.body, Undefined),
                <<>>)

DeleteService(c, this, a) ==
    IF IsNullish(a.api) THEN Rejects(NoApiError(c), <<>>)
    ELSE Awaits("request",
                request(c, this, "DELETE", DeletePath(a.modelClass, a.pk), Undefined,
                        Undefined),
                <<>>)

\* UploadFileService appending the file part only.
UploadFileServiceFileOnly(c, this, a) ==
    IF ~Truthy(a.file)
    THEN Returns(<<Null, JsError(<<c, "file">>, "Error", MSG_FILE_REQUIRED)>>,
                 <<"validate">>)
    ELSE IF StringifyThrows(a.jsonData)
    THEN Rejects(JsError(<<c, "JSON.stringify">>, "TypeError", MSG_CIRCULAR), <<"validate">>)
    ELSE LET formData == FormData(<< <<"file", a.file>> >>)
         IN IF IsNullish(a.api) THEN Rejects(NoApiError(c), <<"validate">>)
            ELSE Awaits("uploadRequest",
                        uploadRequest(c, this, SavePath(a.modelClass), formData,
                                      a.queryParams),
                        <<"validate">>)

\* UploadFileService testing the file as file === null.
UploadFileServiceNullOnly(c, this, a) ==
    IF a.file.t = "null"
    THEN Returns(<<Null, JsError(<<c, "file">>, "Error", MSG_FILE_REQUIRED)>>,
                 <<"validate">>)
    ELSE IF StringifyThrows(a.jsonData)
    THEN Rejects(JsError(<<c, "JSON.stringify">>, "TypeError", MSG_CIRCULAR), <<"validate">>)
    ELSE LET formData == FormData(<< <<"__json__", JStr(JsonStringify(a.jsonData))>>,
                                     <<"file", a.file>> >>)
         IN IF IsNullish(a.api) THEN Rejects(NoApiError(c), <<"validate">>)
            ELSE Awaits("uploadRequest",
                        uploadRequest(c, this, SavePath(a.modelClass), formData,
                                      a.queryParams),
                        <<"validate">>)

UploadFileService(c, this, a) ==
    IF ~Truthy(a.file)
    THEN Returns(<<Null, JsError(<<c, "file">>, "Error", MSG_FILE_REQUIRED)>>,
                 <<"validate">>)
    ELSE IF StringifyThrows(a.jsonData)
    THEN Rejects(JsError(<<c, "JSON.stringify">>, "TypeError", MSG_CIRCULAR), <<"validate">>)
    ELSE LET formData == FormData(<< <<"__json__", JStr(JsonStringify(a.jsonData))>>,
                                     <<"file", a.file>> >>)
         IN IF IsNullish(a.api) THEN Rejects(NoApiError(c), <<"validate">>)
            ELSE IF Truthy(a.queryParams)
            THEN Awaits("uploadRequest",
                        uploadRequest(c, this, SavePath(a.modelClass), formData,
                                      a.queryParams),
                        <<"validate">>)
            ELSE Awaits("uploadRequest",
                        uploadRequest(c, this, SavePath(a.modelClass), formData, Undefined),
                        <<"validate">>)

\* ExecuteActionService without its argument validation.
ExecuteActionServiceNoValidation(c, this, a) ==
    LET requestBody == IF Truthy(a.body) THEN a.body ELSE JObj(<<>>)
    IN IF IsNullish(a.api) THEN Rejects(NoApiError(c), <<"validate">>)
       ELSE Awaits("request",
                   request(c, this, "POST", ActionPath(a.modelClass, a.actionName, a.pk),
                           requestBody, a.queryParams),
                   <<"validate">>)

\* ExecuteActionService is declared, tested and documented, but its body is
\* not among the sources; it is modelled from its specification: validation
\* of modelClass and actionName, parameters defaulting to {}, POST through
\* api.request.
ExecuteActionService(c, this, a) ==
    LET requestBody == IF Truthy(a.body) THEN a.body ELSE JObj(<<>>)
    IN IF a.modelClass = <<>>
       THEN Returns(<<Null, JsError(<<c, "modelClass">>, "Error", MSG_MODELCLASS_REQUIRED)>>,
                    <<"validate">>)
       ELSE IF a.actionName = <<>>
       THEN Returns(<<Null, JsError(<<c, "actionName">>, "Error", MSG_ACTIONNAME_REQUIRED)>>,
                    <<"validate">>)
       ELSE IF IsNullish(a.api) THEN Rejects(NoApiError(c), <<"validate">>)
       ELSE IF Truthy(a.queryParams)
       THEN Awaits("request",
                   request(c, this, "POST", ActionPath(a.modelClass, a.actionName, a.pk),
                           requestBody, a.queryParams),
                   <<"validate">>)
       ELSE Awaits("request",
                   request(c, this, "POST", ActionPath(a.modelClass, a.actionName, a.pk),
                           requestBody, Undefined),
                   <<"validate">>)

\* ExecuteStaticActionService: ExecuteActionService with pk 0.
ExecuteStaticActionService(c, this, a) ==
    ExecuteActionService(c, this, [a EXCEPT !.pk = 0])

\* if (error) return [null, error]; return [response, null];
ReturnPair(tuple) ==
    IF Truthy(tuple[2]) THEN <<Null, tuple[2]>> ELSE <<tuple[1], Null>>

\* ------------------------------------------------------------------ state
VARIABLES
    client,   \* the ApiService instance: [baseUrl, token]
    calls     \* per call slot: where the helper call is and what it did

vars == <<client, calls>>

IdleCall ==
    [pc |-> "idle", helper |-> "", args |-> NoArgs, prim |-> "none",
     events |-> <<>>, fetched |-> <<>>, resp |-> <<>>, reads |-> {},
     outcome |-> Pending, tuple |-> <<>>, result |-> <<>>, thrown |-> <<>>]

\* new ApiService({ baseUrl, token }): the constructor stores both, unchecked.
Init ==
    /\ client \in Clients
    /\ calls = [c \in Slots |-> IdleCall]

\* The call record after the synchronous part of the helper has run.
StartedCall(helper, a, plan) ==
    LET base == [IdleCall EXCEPT !.helper = helper, !.args = a, !.events = plan.events]
    IN CASE plan.kind = "return" ->
              [base EXCEPT !.pc = "returned", !.result = plan.result]
         [] plan.kind = "reject" ->
              [base EXCEPT !.pc = "rejected", !.thrown = <<plan.err>>]
         [] plan.kind = "await" /\ plan.step.kind = "throw" ->
              [base EXCEPT !.pc = "settled", !.prim = plan.prim,
                           !.outcome = Rejected(plan.step.err)]
         [] plan.kind = "await" /\ plan.step.kind = "fetch" ->
              [base EXCEPT !.pc = "fetching", !.prim = plan.prim,
                           !.fetched = <<plan.step.req>>]

\* A call that stores the normalized baseUrl back into the client.
BeginNormalizing(c, helper, a, plan) ==
    /\ calls[c].pc = "idle"
    /\ calls' = [calls EXCEPT ![c] = StartedCall(helper, a, plan)]
    /\ client' = IF client.baseUrl.t = "string"
                 THEN [client EXCEPT !.baseUrl = JStr(StripTrailingSlash(client.baseUrl.s))]
                 ELSE client

Begin(c, helper, a, plan) ==
    /\ calls[c].pc = "idle"
    /\ calls' = [calls EXCEPT ![c] = StartedCall(helper, a, plan)]
    /\ UNCHANGED client

\* ---------------------------------------------------------------- actions
CallListService(c) ==
    \E api \in ApiArgs, m \in ModelClasses, b \in BodyArgs, q \in QueryParamArgs :
        LET a == [NoArgs EXCEPT !.api = api, !.modelClass = m, !.body = b,
                                !.queryParams = q]
        IN Begin(c, "ListService", a, ListService(c, client, a))

CallRetrieveService(c) ==
    \E api \in ApiArgs, m \in ModelClasses, pk \in Pks, q \in QueryParamArgs :
        LET a == [NoArgs EXCEPT !.api = api, !.modelClass = m, !.pk = pk,
                                !.queryParams = q]
        IN Begin(c, "RetrieveService", a, RetrieveService(c, client, a))

\* A fifth argument is not a parameter of RetrieveFileService; the call is
\* made with it all the same.
CallRetrieveFileService(c) ==
    \E api \in ApiArgs, m \in ModelClasses, pk \in Pks, ff \in FileFieldArgs,
       q \in QueryParamArgs :
        LET a == [NoArgs EXCEPT !.api = api, !.modelClass = m, !.pk = pk,
                                !.fileField = ff, !.queryParams = q]
        IN Begin(c, "RetrieveFileService", a, RetrieveFileService(c, client, a))

CallSaveService(c) ==
    \E api \in ApiArgs, m \in ModelClasses, b \in BodyArgs, q \in QueryParamArgs :
        LET a == [NoArgs EXCEPT !.api = api, !.modelClass = m, !.body = b,
                                !.queryParams = q]
        IN Begin(c, "SaveService", a, SaveService(c, client, a))

\* A fourth argument is not a parameter of DeleteService; the call is made
\* with it all the same.
CallDeleteService(c) ==
    \E api \in ApiArgs, m \in ModelClasses, pk \in Pks, q \in QueryParamArgs :
        LET a == [NoArgs EXCEPT !.api = api, !.modelClass = m, !.pk = pk,
                                !.queryParams = q]
        IN Begin(c, "DeleteService", a, DeleteService(c, client, a))

CallUploadFileService(c) ==
    \E api \in ApiArgs, m \in ModelClasses, f \in FileArgs, j \in JsonDataArgs,
       q \in QueryParamArgs :
        LET a == [NoArgs EXCEPT !.api = api, !.modelClass = m, !.file = f,
                                !.jsonData = j, !.queryParams = q]
        IN Begin(c, "UploadFileService", a, UploadFileService(c, client, a))

CallExecuteActionService(c) ==
    \E api \in ApiArgs, m \in ModelClasses, pk \in Pks, n \in ActionNames,
       b \in BodyArgs, q \in QueryParamArgs :
        LET a == [NoArgs EXCEPT !.api = api, !.modelClass = m, !.pk = pk,
                                !.actionName = n, !.body = b, !.queryParams = q]
        IN Begin(c, "ExecuteActionService", a, ExecuteActionService(c, client, a))

CallExecuteStaticActionService(c) ==
    \E api \in ApiArgs, m \in ModelClasses, n \in ActionNames, b \in BodyArgs,
       q \in QueryParamArgs :
        LET a == [NoArgs EXCEPT !.api = api, !.modelClass = m, !.actionName = n,
                                !.body = b, !.queryParams = q]
        IN Begin(c, "ExecuteStaticActionService", a,
                 ExecuteStaticActionService(c, client, a))

\* fetch resolves with the backend's response.
FetchResolve(c) ==
    /\ calls[c].pc = "fetching"
    /\ \E r \in Responses :
           calls' = [calls EXCEPT ![c].pc = "responded", ![c].resp = <<r>>]
    /\ UNCHANGED client

\* fetch rejects: the primitive's promise rejects with the same reason.
FetchReject(c) ==
    /\ calls[c].pc = "fetching"
    /\ \E e \in RejectReasons(c) :
           calls' = [calls EXCEPT ![c].pc = "settled", ![c].outcome = Rejected(e)]
    /\ UNCHANGED client

\* request / uploadRequest continue after await fetch.
JsonSettle(c) ==
    /\ calls[c].pc = "responded"
    /\ calls[c].prim \in {"request", "uploadRequest"}
    /\ LET s == jsonAfterFetch(c, calls[c].resp[1])
       IN calls' = [calls EXCEPT ![c].pc = "settled", ![c].outcome = s.outcome,
                                 ![c].reads = s.reads]
    /\ UNCHANGED client

\* fileRequest continues after await fetch.
FileSettle(c) ==
    /\ calls[c].pc = "responded"
    /\ calls[c].prim = "fileRequest"
    /\ LET s == fileAfterFetch(c, calls[c].resp[1])
       IN calls' = [calls EXCEPT ![c].pc = "settled", ![c].outcome = s.outcome,
                                 ![c].reads = s.reads]
    /\ UNCHANGED client

\* The helper continues after await safeAwait(...) and returns its pair.
HelperReturn(c) ==
    /\ calls[c].pc = "settled"
    /\ LET tuple == safeAwait(calls[c].outcome)
       IN calls' = [calls EXCEPT ![c].pc = "returned", ![c].tuple = tuple,
                                 ![c].result = ReturnPair(tuple)]
    /\ UNCHANGED client

\* The caller has taken the result; the slot is free for its next call.
Release(c) ==
    /\ calls[c].pc \in {"returned", "rejected"}
    /\ calls' = [calls EXCEPT ![c] = IdleCall]
    /\ UNCHANGED client

Step(c) ==
    \/ CallListService(c)
    \/ CallRetrieveService(c)
    \/ CallRetrieveFileService(c)
    \/ CallSaveService(c)
    \/ CallDeleteService(c)
    \/ CallUploadFileService(c)
    \/ CallExecuteActionService(c)
    \/ CallExecuteStaticActionService(c)
    \/ FetchResolve(c)
    \/ FetchReject(c)
    \/ JsonSettle(c)
    \/ FileSettle(c)
    \/ HelperReturn(c)
    \/ Release(c)

\* One caller that awaits each call before it makes the next.
Next == \E c \in SeqSlots : Step(c)

Spec == Init /\ [][Next]_vars

\* ------------------------------------------ the transport primitives, direct
\* ApiService's methods are public: a caller may use them without a helper.
CallRequest(c) ==
    \E method \in Methods, e \in Endpoints, b \in PrimitiveBodyArgs,
       q \in QueryParamArgs :
        LET a == [NoArgs EXCEPT !.api = ApiRef, !.method = method, !.endpoint = e,
                                !.body = b, !.queryParams = q]
        IN Begin(c, "request", a,
                 Awaits("request", request(c, client, method, e, b, q), <<>>))

CallUploadRequest(c) ==
    \E e \in Endpoints, q \in QueryParamArgs :
        LET a == [NoArgs EXCEPT !.api = ApiRef, !.method = "POST", !.endpoint = e,
                                !.file = FileObj("F"), !.queryParams = q]
            formData == FormData(<< <<"file", a.file>> >>)
        IN Begin(c, "uploadRequest", a,
                 Awaits("uploadRequest", uploadRequest(c, client, e, formData, q), <<>>))

CallFileRequest(c) ==
    \E e \in Endpoints, q \in QueryParamArgs :
        LET a == [NoArgs EXCEPT !.api = ApiRef, !.method = "GET", !.endpoint = e,
                                !.queryParams = q]
        IN Begin(c, "fileRequest", a,
                 Awaits("fileRequest", fileRequest(c, client, e, q), <<>>))

\* The caller's await of the primitive's promise ends: it has the value or
\* the thrown error, and is free for its next call.
TakeOutcome(c) ==
    /\ calls[c].pc = "settled"
    /\ calls' = [calls EXCEPT ![c] = IdleCall]
    /\ UNCHANGED client

UrlInit ==
    /\ client \in {[baseUrl |-> b, token |-> TOKEN] : b \in JoinBaseUrls}
    /\ calls = [c \in Slots |-> IdleCall]

UrlStep(c) ==
    \/ CallRequest(c)
    \/ CallUploadRequest(c)
    \/ CallFileRequest(c)
    \/ FetchResolve(c)
    \/ FetchReject(c)
    \/ JsonSettle(c)
    \/ FileSettle(c)
    \/ TakeOutcome(c)

UrlNext == \E c \in SeqSlots : UrlStep(c)

\* One caller using the transport primitives of its client directly.
SpecUrl == UrlInit /\ [][UrlNext]_vars

\* --------------------------------------------------- concurrent callers
\* Several calls in flight on one shared client: each slot runs a helper
\* call of its own, and the backend answers them in any order.
SharedClients == {cl \in Clients : cl.baseUrl = JStr(<<"h">>)}

ConcurrentBodyArgs == {Undefined, JObj(<< <<<<"k">>, JNum(1)>> >>)}

ConcurrentResponses ==
    {r \in Responses :
        \/ r.status = 200 /\ r.body.text = <<"{","\"","i","d","\"",":","1","}">>
        \/ r.status = 204 /\ r.body.text = <<>> /\ ~r.body.broken
        \/ r.status = 404 /\ r.body.text = <<"N","F">>}

ConcurrentListService(c) ==
    \E b \in ConcurrentBodyArgs :
        LET a == [NoArgs EXCEPT !.api = ApiRef, !.modelClass = <<"m">>, !.body = b]
        IN Begin(c, "ListService", a, ListService(c, client, a))

ConcurrentRetrieveService(c) ==
    \E pk \in Pks :
        LET a == [NoArgs EXCEPT !.api = ApiRef, !.modelClass = <<"m">>, !.pk = pk]
        IN Begin(c, "RetrieveService", a, RetrieveService(c, client, a))

\* One response handed to every call that waits for its fetch.
ConcurrentFetchResolveShared(c) ==
    /\ calls[c].pc = "fetching"
    /\ \E r \in ConcurrentResponses :
           calls' = [d \in Slots |->
                        IF calls[d].pc = "fetching"
                        THEN [calls[d] EXCEPT !.pc = "responded", !.resp = <<r>>]
                        ELSE calls[d]]
    /\ UNCHANGED client

\* fetch of call c resolves with the backend's response to its request.
ConcurrentFetchResolve(c) ==
    /\ calls[c].pc = "fetching"
    /\ \E r \in ConcurrentResponses :
           calls' = [calls EXCEPT ![c].pc = "responded", ![c].resp = <<r>>]
    /\ UNCHANGED client

ConcurrentInit ==
    /\ client \in SharedClients
    /\ calls = [c \in Slots |-> IdleCall]

ConcurrentStep(c) ==
    \/ ConcurrentListService(c)
    \/ ConcurrentRetrieveService(c)
    \/ ConcurrentFetchResolve(c)
    \/ FetchReject(c)
    \/ JsonSettle(c)
    \/ HelperReturn(c)
    \/ Release(c)

ConcurrentNext == \E c \in Slots : ConcurrentStep(c)

SpecConcurrent == ConcurrentInit /\ [][ConcurrentNext]_vars

TypeOK ==
    /\ client.token \in {TOKEN, TEST_TOKEN}
    /\ \A c \in Slots :
           calls[c].pc \in {"idle", "fetching", "responded", "settled", "returned", "rejected"}

\* ===================================================================
\* Properties
\* ===================================================================
Returned(c) == calls[c].pc = "returned"
Started(c) == calls[c].pc # "idle"
HasResponse(c) == calls[c].resp # <<>>
Status(c) == calls[c].resp[1].status
RespBody(c) == calls[c].resp[1].body
Is2xx(s) == s >= 200 /\ s <= 299
JsonPrim(c) == calls[c].prim \in {"request", "uploadRequest"}
Value(c) == calls[c].result[1]
Error(c) == calls[c].result[2]

\* The (null, null) cases: a 204 or a JSON null body on a JSON or upload
\* helper, and a fetch rejected with a falsy reason.
NullNullCase(c) ==
    \/ /\ HasResponse(c)
       /\ JsonPrim(c)
       /\ Is2xx(Status(c))
       /\ \/ Status(c) = 204
          \/ ~RespBody(c).broken /\ RespBody(c).text = <<"n","u","l","l">>
    \/ /\ ~HasResponse(c)
       /\ calls[c].fetched # <<>>
       /\ calls[c].outcome.v.t \in {"null", "undefined"}

\* C1 as stated: every pair a helper returns has exactly one non-null element.
C1_ExactlyOneNonNull ==
    \A c \in Slots : Returned(c) => ((Value(c) = Null) # (Error(c) = Null))

\* C1 amended: a returned pair never has two non-null elements, and it is
\* (null, null) exactly in the cases of NullNullCase; otherwise exactly one
\* element is non-null.
C1_AtMostOneNonNull ==
    \A c \in Slots :
        Returned(c) =>
            /\ ~(Value(c) # Null /\ Error(c) # Null)
            /\ (Value(c) = Null /\ Error(c) = Null) <=> NullNullCase(c)

C1_Witness ==
    \E c \in Slots :
        /\ Returned(c) /\ HasResponse(c) /\ Status(c) = 204
        /\ calls[c].result = <<Null, Null>>

\* The body of a 2xx response cannot be turned into the primitive's value.
BodyFails(c) ==
    IF calls[c].prim = "fileRequest" THEN RespBody(c).broken
    ELSE Status(c) # 204
         /\ (RespBody(c).broken
             \/ ~(\E v \in JsonValues : JsonStringify(v) = RespBody(c).text))

\* C2 as stated: a 2xx response gives (value, null) with value non-null and
\* equal to the parsed body (RetrieveFile: the byte payload).
C2_SuccessNonNull ==
    \A c \in Slots :
        (Returned(c) /\ HasResponse(c) /\ Is2xx(Status(c))) =>
            /\ Value(c) # Null
            /\ Error(c) = Null
            /\ IF calls[c].prim = "fileRequest"
               THEN Value(c).t = "filedata" /\ Value(c).data = RespBody(c).bytes
               ELSE JsonStringify(Value(c)) = RespBody(c).text

\* C2 amended: on a 2xx response whose body is read and parsed, error is null
\* and value is the parsed JSON body (RetrieveFile: bytes and content type);
\* on 204 a JSON or upload helper returns (null, null) without a body; the
\* value is null only then or when the body is the JSON text null.
C2_SuccessValue ==
    \A c \in Slots :
        (Returned(c) /\ HasResponse(c) /\ Is2xx(Status(c)) /\ ~BodyFails(c)) =>
            /\ Error(c) = Null
            /\ IF calls[c].prim = "fileRequest"
               THEN Value(c) = [t |-> "filedata", data |-> RespBody(c).bytes,
                                contentType |-> RespBody(c).ctype]
               ELSE IF Status(c) = 204 THEN Value(c) = Null
               ELSE /\ Value(c) \in JsonValues
                    /\ JsonStringify(Value(c)) = RespBody(c).text
                    /\ (Value(c) = Null <=> RespBody(c).text = <<"n","u","l","l">>)

C2_Witness ==
    \E c \in Slots :
        /\ Returned(c) /\ HasResponse(c) /\ Status(c) = 200 /\ JsonPrim(c)
        /\ Error(c) = Null
        /\ Value(c) = JObj(<< <<<<"i","d">>, JNum(1)>> >>)

HasApiErrorMessage(e, s) ==
    /\ e.t = "error"
    /\ Contains(e.msg, <<"A","P","I"," ","E","r","r","o","r">>)
    /\ Contains(e.msg, ToDec(s))

\* C3 as stated: the call fails if and only if the status is outside
\* 200..299, and a failure is (null, error) with "API Error" and the status
\* code in the message.
C3_FailsIffNot2xx ==
    \A c \in Slots :
        (Returned(c) /\ HasResponse(c)) =>
            /\ (Error(c) # Null) <=> ~Is2xx(Status(c))
            /\ (Error(c) # Null) =>
                   (Value(c) = Null /\ HasApiErrorMessage(Error(c), Status(c)))

\* C3 amended: a status outside 200..299 always fails as (null, error), and
\* the message holds "API Error" and the status code when the body text can
\* be read; a status in 200..299 fails only when its body cannot be read or
\* parsed.
C3_Not2xxFails ==
    \A c \in Slots :
        (Returned(c) /\ HasResponse(c)) =>
            /\ ~Is2xx(Status(c)) =>
                   /\ Value(c) = Null
                   /\ Error(c) # Null
                   /\ ~RespBody(c).broken => HasApiErrorMessage(Error(c), Status(c))
            /\ Is2xx(Status(c)) =>
                   /\ (Error(c) # Null) <=> BodyFails(c)
                   /\ (Error(c) # Null) =>
                          (Value(c) = Null /\ ~HasApiErrorMessage(Error(c), Status(c)))

C3_Witness ==
    \E c \in Slots :
        /\ Returned(c) /\ HasResponse(c) /\ Status(c) = 404
        /\ Value(c) = Null
        /\ HasApiErrorMessage(Error(c), 404)

\* C4 as stated: no helper call ends with its promise rejected.
C4_NoHelperRejects ==
    \A c \in Slots : calls[c].pc # "rejected"

\* C5: safeAwait turns a resolved promise into (v, null) and a rejected one
\* into (null, e), e being the very object the promise rejected with.
C5_SafeAwaitPair ==
    \A c \in Slots :
        (Returned(c) /\ calls[c].outcome.state # "pending") =>
            /\ calls[c].outcome.state = "resolved" =>
                   calls[c].tuple = <<calls[c].outcome.v, Null>>
            /\ calls[c].outcome.state = "rejected" =>
                   calls[c].tuple = <<Null, calls[c].outcome.v>>

C5_Witness ==
    \E c \in Slots :
        /\ Returned(c)
        /\ calls[c].outcome.state = "rejected"
        /\ calls[c].outcome.v.t = "error"
        /\ calls[c].tuple[2].oid = calls[c].outcome.v.oid

\* C6: on 204 the JSON primitives resolve with null and never call json();
\* a helper then returns (null, null); on any other 2xx they call json().
C6_NoContent ==
    \A c \in Slots :
        (calls[c].pc \in {"settled", "returned"} /\ HasResponse(c) /\ JsonPrim(c)
         /\ Is2xx(Status(c))) =>
            /\ Status(c) = 204 =>
                   /\ calls[c].outcome = [state |-> "resolved", v |-> Null]
                   /\ calls[c].reads = {}
                   /\ Returned(c) => calls[c].result = <<Null, Null>>
            /\ Status(c) # 204 => calls[c].reads = {"json"}

C6_Witness ==
    \E c \in Slots :
        /\ Returned(c) /\ calls[c].helper = "DeleteService"
        /\ HasResponse(c) /\ Status(c) = 204
        /\ RespBody(c).text = <<>> /\ ~RespBody(c).broken
        /\ calls[c].result = <<Null, Null>>

\* "API Error: <status> <statusText> - <body>"
ApiErrorForm(resp) ==
    <<"A","P","I"," ","E","r","r","o","r",":"," ">> \o ToDec(resp.status)
    \o <<" ">> \o resp.statusText \o <<" ","-"," ">> \o resp.body.text

\* C7 as stated: every non-2xx response makes the primitive raise an error of
\* the form "API Error: <status> <statusText> - <body>", with no JSON or
\* blob parsing.
C7_Not2xxRaisesApiError ==
    \A c \in Slots :
        (calls[c].pc \in {"settled", "returned"} /\ HasResponse(c)
         /\ ~Is2xx(Status(c))) =>
            /\ calls[c].outcome.state = "rejected"
            /\ calls[c].outcome.v.t = "error"
            /\ calls[c].outcome.v.msg = ApiErrorForm(calls[c].resp[1])
            /\ calls[c].reads \cap {"json", "blob"} = {}

\* C7 amended: on a non-2xx response whose body text can be read, each
\* primitive raises an error of that form (so the message holds the status,
\* the status text and the body text); when reading the body text fails, the
\* error of that read is raised instead; neither way is json() or blob()
\* called.
C7_Not2xxRaises ==
    \A c \in Slots :
        (calls[c].pc \in {"settled", "returned"} /\ HasResponse(c)
         /\ ~Is2xx(Status(c))) =>
            /\ calls[c].outcome.state = "rejected"
            /\ calls[c].outcome.v.t = "error"
            /\ calls[c].reads = {"text"}
            /\ ~RespBody(c).broken =>
                   /\ calls[c].outcome.v.msg = ApiErrorForm(calls[c].resp[1])
                   /\ Contains(calls[c].outcome.v.msg, ToDec(Status(c)))
                   /\ Contains(calls[c].outcome.v.msg, calls[c].resp[1].statusText)
                   /\ Contains(calls[c].outcome.v.msg, RespBody(c).text)
            /\ RespBody(c).broken =>
                   /\ calls[c].outcome.v.name = "TypeError"
                   /\ ~Contains(calls[c].outcome.v.msg, <<"A","P","I">>)

C7_Witness ==
    \E c \in Slots :
        /\ calls[c].pc = "settled" /\ calls[c].prim = "fileRequest"
        /\ HasResponse(c) /\ Status(c) = 404 /\ RespBody(c).text = <<"N","F">>
        /\ calls[c].outcome.v.msg = ApiErrorForm(calls[c].resp[1])

\* The argument preconditions of the helper of call c.
PreconditionsPass(c) ==
    LET a == calls[c].args
        h == calls[c].helper
    IN CASE h = "RetrieveFileService" -> a.fileField # JStr(<<>>)
         [] h = "UploadFileService" -> a.file.t = "file"
         [] h \in {"ExecuteActionService", "ExecuteStaticActionService"} ->
              a.modelClass # <<>> /\ a.actionName # <<>>
         [] OTHER -> TRUE

ClientHasBaseUrl ==
    IF client.baseUrl.t = "string" THEN client.baseUrl.s # <<>> ELSE FALSE

OnClient(c) == calls[c].args.api = ApiRef

\* The body and the upload metadata of call c can be serialized to JSON.
Serializable(c) ==
    /\ ~(calls[c].args.body.t = "object" /\ calls[c].args.body.cyc)
    /\ ~(calls[c].args.jsonData.t = "object" /\ calls[c].args.jsonData.cyc)

\* C8 as stated: a call whose preconditions pass, on a client with a baseUrl,
\* makes exactly one fetch; a call stopped by validation or by the baseUrl
\* check makes none.
C8_ExactlyOneFetch ==
    \A c \in Slots :
        Started(c) =>
            /\ (PreconditionsPass(c) /\ OnClient(c) /\ ClientHasBaseUrl) =>
                   Len(calls[c].fetched) = 1
            /\ (~PreconditionsPass(c) \/ (OnClient(c) /\ ~ClientHasBaseUrl)) =>
                   Len(calls[c].fetched) = 0

\* C8 amended: a call whose preconditions pass and whose body or upload
\* metadata can be serialized to JSON, on a client with a baseUrl, makes
\* exactly one fetch, whatever the response or transport error; a call
\* stopped by validation, by the baseUrl check or by a failing serialization
\* makes none; no call makes a second fetch.
C8_OneFetchIfSerializable ==
    \A c \in Slots :
        Started(c) =>
            /\ (PreconditionsPass(c) /\ OnClient(c) /\ ClientHasBaseUrl
                /\ Serializable(c)) =>
                   Len(calls[c].fetched) = 1
            /\ (~PreconditionsPass(c) \/ (OnClient(c) /\ ~ClientHasBaseUrl)
                \/ ~Serializable(c)) =>
                   Len(calls[c].fetched) = 0
            /\ Len(calls[c].fetched) <= 1

C8_Witness ==
    \E c \in Slots :
        /\ Returned(c) /\ HasResponse(c) /\ Status(c) = 404
        /\ Error(c) # Null
        /\ Len(calls[c].fetched) = 1

\* C9: a client constructed without a baseUrl exists, no call on it ever
\* fetches, and every call that enters a transport primitive has that
\* primitive fail with the "baseUrl is missing" error, which the helper
\* returns as (null, error).
C9_MissingBaseUrl ==
    \A c \in Slots :
        (Started(c) /\ ~ClientHasBaseUrl) =>
            /\ calls[c].fetched = <<>>
            /\ (OnClient(c) /\ PreconditionsPass(c)
                /\ ~(calls[c].args.jsonData.t = "object" /\ calls[c].args.jsonData.cyc)) =>
                   calls[c].prim # "none"
            /\ calls[c].prim # "none" =>
                   /\ calls[c].outcome.state = "rejected"
                   /\ calls[c].outcome.v.t = "error"
                   /\ Contains(calls[c].outcome.v.msg,
                               <<"b","a","s","e","U","r","l"," ","i","s"," ",
                                 "m","i","s","s","i","n","g">>)
                   /\ Returned(c) => calls[c].result = <<Null, calls[c].outcome.v>>

C9_Witness ==
    \E c \in Slots :
        /\ client.baseUrl = JStr(<<>>)
        /\ Returned(c) /\ calls[c].helper = "UploadFileService"
        /\ calls[c].prim = "uploadRequest"
        /\ Value(c) = Null
        /\ Error(c).t = "error" /\ Error(c).msg = MSG_BASEURL_MISSING
        /\ calls[c].fetched = <<>>

\* The part of a url before its first "?".
PathPart(url) ==
    IF \E i \in 1..Len(url) : url[i] = "?"
    THEN SubSeq(url, 1, (CHOOSE i \in 1..Len(url) :
                             url[i] = "?" /\ \A j \in 1..(i - 1) : url[j] # "?") - 1)
    ELSE url

\* The backend convention: method and path of each helper.
ConventionMethod(h) ==
    CASE h \in {"RetrieveService", "RetrieveFileService"} -> "GET"
      [] h = "DeleteService" -> "DELETE"
      [] OTHER -> "POST"

ConventionPath(h, a) ==
    CASE h = "ListService" -> <<"/">> \o a.modelClass \o <<"/","l","i","s","t","/">>
      [] h = "RetrieveService" ->
           <<"/">> \o a.modelClass \o <<"/","r","e","t","r","i","e","v","e","/">>
           \o ToDec(a.pk) \o <<"/">>
      [] h = "RetrieveFileService" ->
           <<"/">> \o a.modelClass
           \o <<"/","r","e","t","r","i","e","v","e","-","f","i","l","e","/">>
           \o ToDec(a.pk) \o <<"/">>
      [] h \in {"SaveService", "UploadFileService"} ->
           <<"/">> \o a.modelClass \o <<"/","s","a","v","e","/">>
      [] h = "DeleteService" ->
           <<"/">> \o a.modelClass \o <<"/","d","e","l","e","t","e","/">>
           \o ToDec(a.pk) \o <<"/">>
      [] h = "ExecuteActionService" ->
           <<"/">> \o a.modelClass \o <<"/","a","c","t","i","o","n","s","/">>
           \o a.actionName \o <<"/">> \o ToDec(a.pk) \o <<"/">>
      [] h = "ExecuteStaticActionService" ->
           <<"/">> \o a.modelClass \o <<"/","a","c","t","i","o","n","s","/">>
           \o a.actionName \o <<"/","0","/">>

\* C10: every request a helper issues has the method and the path of the
\* backend convention, after the base url, and its path ends with "/".
C10_Routes ==
    \A c \in Slots :
        calls[c].fetched # <<>> =>
            LET req == calls[c].fetched[1]
                path == PathPart(req.url)
            IN /\ req.method = ConventionMethod(calls[c].helper)
               /\ path = StripTrailingSlash(client.baseUrl.s)
                         \o ConventionPath(calls[c].helper, calls[c].args)
               /\ path[Len(path)] = "/"

C10_Witness ==
    \E c \in Slots :
        /\ calls[c].helper = "DeleteService"
        /\ calls[c].args.pk = MaxPk
        /\ calls[c].fetched # <<>>
        /\ calls[c].fetched[1].method = "DELETE"
        /\ calls[c].fetched[1].url =
               <<"h","/","m","/","d","e","l","e","t","e","/">> \o ToDec(MaxPk) \o <<"/">>

EndsWith(s, suffix) ==
    Len(s) >= Len(suffix) /\ SubSeq(s, Len(s) - Len(suffix) + 1, Len(s)) = suffix

IsActionCall(c) ==
    calls[c].helper \in {"ExecuteActionService", "ExecuteStaticActionService"}

\* What an ExecuteActionService call with arguments a is after its
\* synchronous part, and what it returns once the transport has settled as
\* it did for call c.
ActionTwin(c, a) == StartedCall("ExecuteActionService", a, ExecuteActionService(c, client, a))
ActionTwinResult(c, a) ==
    IF ActionTwin(c, a).pc = "returned" THEN ActionTwin(c, a).result
    ELSE ReturnPair(safeAwait(calls[c].outcome))

C12_NoFile ==
    \A c \in Slots :
        (Started(c) /\ calls[c].helper = "UploadFileService"
         /\ calls[c].args.file.t \in {"null", "undefined"}) =>
            /\ Returned(c)
            /\ Value(c) = Null
            /\ Error(c).t = "error"
            /\ Error(c).name = "Error"
            /\ Error(c).msg =
                   <<"U","p","l","o","a","d","F","i","l","e","S","e","r","v","i","c","e",":"," ",
                     "f","i","l","e"," ","i","s"," ","r","e","q","u","i","r","e","d">>
            /\ calls[c].fetched = <<>>
            /\ calls[c].prim = "none"

C12_Witness ==
    \E c \in Slots :
        /\ Returned(c) /\ calls[c].helper = "UploadFileService"
        /\ calls[c].args.file = Undefined
        /\ calls[c].args.api = Null
        /\ calls[c].args.jsonData = Circular
        /\ calls[c].args.queryParams # Undefined
        /\ ClientHasBaseUrl
        /\ Error(c).msg = MSG_FILE_REQUIRED
        /\ calls[c].fetched = <<>>

\* The fileField a RetrieveFile call works with: "file" when omitted.
GivenFileField(a) ==
    IF a.fileField.t = "undefined" THEN <<"f","i","l","e">> ELSE a.fileField.s

\* C13: a RetrieveFile call with an empty fileField returns (null, error),
\* the message holding "fileField is required", and fetches nothing; any
\* other call on a client with a baseUrl issues one GET to
\* {base}/{model}/retrieve-file/{pk}/?file-field={fileField}, fileField being
\* "file" when omitted.
C13_RetrieveFileField ==
    \A c \in Slots :
        (Started(c) /\ calls[c].helper = "RetrieveFileService") =>
            LET a == calls[c].args
            IN /\ a.fileField = JStr(<<>>) =>
                      /\ Returned(c)
                      /\ Value(c) = Null
                      /\ Error(c).t = "error"
                      /\ Contains(Error(c).msg,
                                  <<"f","i","l","e","F","i","e","l","d"," ","i","s"," ",
                                    "r","e","q","u","i","r","e","d">>)
                      /\ calls[c].fetched = <<>>
               /\ (a.fileField # JStr(<<>>) /\ OnClient(c) /\ ClientHasBaseUrl) =>
                      Len(calls[c].fetched) = 1
               /\ calls[c].fetched # <<>> =>
                      /\ a.fileField # JStr(<<>>)
                      /\ calls[c].fetched[1].method = "GET"
                      /\ calls[c].fetched[1].url =
                             StripTrailingSlash(client.baseUrl.s) \o <<"/">> \o a.modelClass
                             \o <<"/","r","e","t","r","i","e","v","e","-","f","i","l","e","/">>
                             \o ToDec(a.pk)
                             \o <<"/","?","f","i","l","e","-","f","i","e","l","d","=">>
                             \o GivenFileField(a)

C13_Witness ==
    \E c \in Slots :
        /\ calls[c].helper = "RetrieveFileService"
        /\ calls[c].args.fileField = Undefined
        /\ calls[c].args.pk = MaxPk
        /\ calls[c].fetched # <<>>
        /\ calls[c].fetched[1].url =
               <<"h","/","m","/","r","e","t","r","i","e","v","e","-","f","i","l","e","/">>
               \o ToDec(MaxPk)
               \o <<"/","?","f","i","l","e","-","f","i","e","l","d","=","f","i","l","e">>

\* C14: an ExecuteAction or ExecuteStaticAction call with an empty modelClass
\* returns (null, error) with "modelClass is required" in the message, one
\* with an empty actionName (and a modelClass) returns (null, error) with
\* "actionName is required"; neither enters a transport primitive or fetches.
C14_ActionValidation ==
    \A c \in Slots :
        (Started(c) /\ IsActionCall(c)
         /\ (calls[c].args.modelClass = <<>> \/ calls[c].args.actionName = <<>>)) =>
            /\ Returned(c)
            /\ Value(c) = Null
            /\ Error(c).t = "error"
            /\ calls[c].args.modelClass = <<>> =>
                   Contains(Error(c).msg,
                            <<"m","o","d","e","l","C","l","a","s","s"," ","i","s"," ",
                              "r","e","q","u","i","r","e","d">>)
            /\ (calls[c].args.modelClass # <<>> /\ calls[c].args.actionName = <<>>) =>
                   Contains(Error(c).msg,
                            <<"a","c","t","i","o","n","N","a","m","e"," ","i","s"," ",
                              "r","e","q","u","i","r","e","d">>)
            /\ calls[c].fetched = <<>>
            /\ calls[c].prim = "none"

C14_Witness ==
    \E c \in Slots :
        /\ Returned(c) /\ calls[c].helper = "ExecuteStaticActionService"
        /\ calls[c].args.modelClass = <<"m">>
        /\ calls[c].args.actionName = <<>>
        /\ OnClient(c) /\ ClientHasBaseUrl
        /\ Value(c) = Null
        /\ Error(c).msg = MSG_ACTIONNAME_REQUIRED
        /\ calls[c].fetched = <<>>

HasQuery(url) == \E i \in 1..Len(url) : url[i] = "?"

\* The part of a url after its first "?".
QueryPart(url) ==
    IF HasQuery(url) THEN SubSeq(url, Len(PathPart(url)) + 2, Len(url)) ELSE <<>>

RECURSIVE SplitOn(_, _)
\* The pieces of s between the occurrences of the character sep.
SplitOn(s, sep) ==
    IF \E i \in 1..Len(s) : s[i] = sep
    THEN LET i == CHOOSE x \in 1..Len(s) : s[x] = sep /\ \A y \in 1..(x - 1) : s[y] # sep
         IN <<SubSeq(s, 1, i - 1)>> \o SplitOn(SubSeq(s, i + 1, Len(s)), sep)
    ELSE <<s>>

\* The "key=value" pieces of the query string of a url.
QueryPairs(url) ==
    LET pieces == SplitOn(QueryPart(url), "&")
    IN {pieces[i] : i \in 1..Len(pieces)}

\* The caller supplied query parameters: a mapping with at least one key.
SuppliesQuery(q) == q.t = "object" /\ Len(q.f) > 0

\* The "key=value" pairs of a mapping of identifier keys and values.
PairsOf(q) == {q.f[i][1] \o <<"=">> \o q.f[i][2].s : i \in 1..Len(q.f)}

IsHelperCall(c) ==
    calls[c].helper \in {"ListService", "RetrieveService", "RetrieveFileService",
                         "SaveService", "DeleteService", "UploadFileService",
                         "ExecuteActionService", "ExecuteStaticActionService"}

\* The helpers that have a queryParams parameter.
TakesQueryParams(h) ==
    h \in {"ListService", "RetrieveService", "SaveService", "UploadFileService",
           "ExecuteActionService", "ExecuteStaticActionService"}

EffectiveQuery(c) ==
    CASE calls[c].helper = "DeleteService" -> Undefined
      [] calls[c].helper = "RetrieveFileService" ->
           JObj(<< <<<<"f","i","l","e","-","f","i","e","l","d">>,
                     JStr(GivenFileField(calls[c].args))>> >>)
      [] OTHER -> calls[c].args.queryParams

\* Base and path of call c joined: the baseUrl without its trailing slash,
\* then the path of the backend convention.
JoinedUrl(c) ==
    StripTrailingSlash(client.baseUrl.s) \o ConventionPath(calls[c].helper, calls[c].args)

\* C16: the url of a request has a query string exactly when the queryParams
\* given to the transport primitive is a mapping with at least one key; it is
\* then the joined base and path, "?", and the key=value pairs joined by
\* "&"; with queryParams absent or empty the url is the joined base and path
\* and has no "?".
C16_QueryIffNonEmpty ==
    \A c \in Slots :
        (IsHelperCall(c) /\ calls[c].fetched # <<>>) =>
            LET url == calls[c].fetched[1].url
                q == EffectiveQuery(c)
            IN /\ HasQuery(url) <=> SuppliesQuery(q)
               /\ SuppliesQuery(q) =>
                      /\ PathPart(url) = JoinedUrl(c)
                      /\ ~HasQuery(QueryPart(url))
                      /\ QueryPairs(url) = PairsOf(q)
                      /\ Len(SplitOn(QueryPart(url), "&")) = Len(q.f)
               /\ ~SuppliesQuery(q) => url = JoinedUrl(c)

C16_Witness ==
    \E c \in Slots :
        /\ calls[c].helper = "RetrieveService"
        /\ calls[c].args.queryParams = JObj(<<>>)
        /\ calls[c].fetched # <<>>
        /\ calls[c].fetched[1].url =
               <<"h","/","m","/","r","e","t","r","i","e","v","e","/","0","/">>

\* The "key=value" piece of property i of mapping q.
PairAt(q, i) == q.f[i][1] \o <<"=">> \o q.f[i][2].s

\* Property i of mapping q is enumerated before property j: array-index keys
\* come first, in ascending numeric order, then the other keys in the order
\* of their insertion.
EnumeratedBefore(q, i, j) ==
    LET ki == q.f[i][1]
        kj == q.f[j][1]
    IN \/ IsIndexKey(ki) /\ ~IsIndexKey(kj)
       \/ IsIndexKey(ki) /\ IsIndexKey(kj) /\ ParseDec(ki) < ParseDec(kj)
       \/ ~IsIndexKey(ki) /\ ~IsIndexKey(kj) /\ i < j

\* C17 as stated: the pairs of the query string are those of the mapping, in
\* the order of their insertion.
C17_InsertionOrder ==
    \A c \in Slots :
        (IsHelperCall(c) /\ calls[c].fetched # <<>> /\ SuppliesQuery(EffectiveQuery(c))) =>
            LET q == EffectiveQuery(c)
                pieces == SplitOn(QueryPart(calls[c].fetched[1].url), "&")
            IN pieces = [i \in 1..Len(q.f) |-> PairAt(q, i)]

\* C17 amended: the url is a function of the client's baseUrl, the path and
\* the mapping alone; the pairs of its query string are those of the mapping,
\* keys that are not array indices in the order of their insertion, after
\* the array-index keys, which come first in ascending numeric order.
C17_EnumerationOrder ==
    \A c \in Slots :
        (IsHelperCall(c) /\ calls[c].fetched # <<>> /\ SuppliesQuery(EffectiveQuery(c))) =>
            LET q == EffectiveQuery(c)
                url == calls[c].fetched[1].url
                pieces == SplitOn(QueryPart(url), "&")
            IN /\ PathPart(url) = JoinedUrl(c)
               /\ Len(pieces) = Len(q.f)
               /\ \A i \in 1..Len(q.f) : \E n \in 1..Len(pieces) : pieces[n] = PairAt(q, i)
               /\ \A i, j \in 1..Len(q.f) : \A n, m \in 1..Len(pieces) :
                      (pieces[n] = PairAt(q, i) /\ pieces[m] = PairAt(q, j)
                       /\ EnumeratedBefore(q, i, j)) => n < m
               /\ (\A i \in 1..Len(q.f) : ~IsIndexKey(q.f[i][1])) =>
                      pieces = [i \in 1..Len(q.f) |-> PairAt(q, i)]

C17_Witness ==
    \E c \in Slots :
        /\ calls[c].helper = "ListService"
        /\ calls[c].args.queryParams =
               JObj(<< <<<<"b">>, JStr(<<"2">>)>>, <<<<"1">>, JStr(<<"x">>)>> >>)
        /\ calls[c].fetched # <<>>
        /\ calls[c].fetched[1].url =
               <<"h","/","m","/","l","i","s","t","/","?","1","=","x","&","b","=","2">>

IsPrimitiveCall(c) == calls[c].helper \in {"request", "uploadRequest", "fileRequest"}

\* The url the transport builds for base url b, endpoint p and no query.
UrlOf(b, p) ==
    fileRequest(1, [baseUrl |-> JStr(b), token |-> TOKEN], p, Undefined).req.url

NoSlashAtEnd(s) == s = <<>> \/ s[Len(s)] # "/"
NoSlashAtStart(s) == s = <<>> \/ s[1] # "/"
Prefixes(s) == {SubSeq(s, 1, n) : n \in 0..Len(s)}
Suffixes(s) == {SubSeq(s, n, Len(s)) : n \in 1..(Len(s) + 1)}

\* C18 as stated: whatever the base b of the client and the path p of a
\* request, the url is the one also built from b + "/" and from "/" + p, and
\* in it base and path are separated by one "/" only.
C18_SeamNormalized ==
    \A c \in Slots :
        (IsPrimitiveCall(c) /\ calls[c].fetched # <<>>) =>
            LET b == client.baseUrl.s
                p == calls[c].args.endpoint
                path == PathPart(calls[c].fetched[1].url)
            IN /\ path = UrlOf(b, p)
               /\ path = UrlOf(b \o <<"/">>, p)
               /\ path = UrlOf(b, <<"/">> \o p)
               /\ path = UrlOf(b \o <<"/">>, <<"/">> \o p)
               /\ ~Contains(path, <<"/","/">>)

\* C18 amended: for a base b that does not end in "/" and a path p that does
\* not start with "/", the four combinations of b or b + "/" with p or
\* "/" + p give the url b + "/" + p; one slash is removed on each side and no
\* more, so a second slash at the end of the base or at the start of the
\* path stays in the url.
C18_OneSlashNormalized ==
    \A c \in Slots :
        (IsPrimitiveCall(c) /\ calls[c].fetched # <<>>) =>
            LET base == client.baseUrl.s
                endpoint == calls[c].args.endpoint
                path == PathPart(calls[c].fetched[1].url)
            IN /\ \A b \in Prefixes(base), p \in Suffixes(endpoint) :
                      (NoSlashAtEnd(b) /\ NoSlashAtStart(p)
                       /\ base \in {b, b \o <<"/">>}
                       /\ endpoint \in {p, <<"/">> \o p}) =>
                          /\ path = b \o <<"/">> \o p
                          /\ path = UrlOf(b, p)
                          /\ path = UrlOf(b \o <<"/">>, p)
                          /\ path = UrlOf(b, <<"/">> \o p)
                          /\ path = UrlOf(b \o <<"/">>, <<"/">> \o p)
               /\ \A b \in Prefixes(base) :
                      (base = b \o <<"/">> /\ ~NoSlashAtEnd(b)) =>
                          SubSeq(path, 1, Len(base)) = base
               /\ \A p \in Suffixes(endpoint) :
                      (endpoint = <<"/">> \o p /\ ~NoSlashAtStart(p)) =>
                          EndsWith(path, endpoint)

C18_Witness ==
    \E c \in Slots :
        /\ calls[c].helper = "request"
        /\ client.baseUrl = JStr(<<"h","/">>)
        /\ calls[c].args.endpoint = <<"/","p">>
        /\ calls[c].args.queryParams = Undefined
        /\ calls[c].fetched # <<>>
        /\ calls[c].fetched[1].url = <<"h","/","p">>

\* C19: every request handed to fetch has the header Authorization, "Token "
\* and the client's token; a request of ApiService.request (List, Retrieve,
\* Save, Delete, ExecuteAction, ExecuteStaticAction) also has Content-Type
\* application/json, with a body or without; a request of uploadRequest or
\* fileRequest has no header but Authorization.
C19_Headers ==
    \A c \in Slots :
        calls[c].fetched # <<>> =>
            LET req == calls[c].fetched[1]
            IN /\ req.headers.Authorization = <<"T","o","k","e","n"," ">> \o client.token
               /\ calls[c].helper \in {"ListService", "RetrieveService", "SaveService",
                                       "DeleteService", "ExecuteActionService",
                                       "ExecuteStaticActionService"} =>
                      /\ DOMAIN req.headers = {"Authorization", "ContentType"}
                      /\ req.headers.ContentType =
                             <<"a","p","p","l","i","c","a","t","i","o","n","/","j","s","o","n">>
               /\ calls[c].helper \in {"UploadFileService", "RetrieveFileService"} =>
                      DOMAIN req.headers = {"Authorization"}

C19_Witness ==
    \E c \in Slots :
        /\ calls[c].helper = "DeleteService"
        /\ calls[c].fetched # <<>>
        /\ calls[c].fetched[1].method = "DELETE"
        /\ calls[c].fetched[1].body = Undefined
        /\ client.token = TEST_TOKEN
        /\ calls[c].fetched[1].headers =
               [Authorization |-> <<"T","o","k","e","n"," ","t","-","1","2","3">>,
                ContentType |-> STR_APPLICATION_JSON]

\* The values of the parts of a multipart body that have the given name.
PartsNamed(body, name) ==
    SelectSeq(body.parts, LAMBDA part : part[1] = name)

\* C20: an UploadFile call that passes validation, with metadata that can be
\* serialized, on a client with a baseUrl, issues one request: a POST to
\* /{model}/save/ whose body is a multipart payload of two parts, "file"
\* with the very file object of the caller and "__json__" with the JSON
\* text of the caller's metadata.
C20_UploadPayload ==
    \A c \in Slots :
        (Started(c) /\ calls[c].helper = "UploadFileService") =>
            LET a == calls[c].args
            IN /\ (a.file.t = "file" /\ Serializable(c) /\ OnClient(c) /\ ClientHasBaseUrl) =>
                      Len(calls[c].fetched) = 1
               /\ calls[c].fetched # <<>> =>
                      LET req == calls[c].fetched[1]
                      IN /\ Len(calls[c].fetched) = 1
                         /\ req.method = "POST"
                         /\ PathPart(req.url) =
                                StripTrailingSlash(client.baseUrl.s) \o <<"/">>
                                \o a.modelClass \o <<"/","s","a","v","e","/">>
                         /\ req.body.t = "formdata"
                         /\ Len(req.body.parts) = 2
                         /\ PartsNamed(req.body, "file") = << <<"file", a.file>> >>
                         /\ PartsNamed(req.body, "__json__") =
                                << <<"__json__", JStr(JsonStringify(a.jsonData))>> >>
                         /\ a.jsonData = JObj(<< <<<<"k">>, JNum(1)>> >>) =>
                                PartsNamed(req.body, "__json__")[1][2].s =
                                    <<"{","\"","k","\"",":","1","}">>

C20_Witness ==
    \E c \in Slots :
        /\ Returned(c) /\ calls[c].helper = "UploadFileService"
        /\ calls[c].args.file = FileObj("F")
        /\ HasResponse(c) /\ Status(c) = 200 /\ Error(c) = Null
        /\ calls[c].fetched[1].method = "POST"
        /\ calls[c].fetched[1].url = <<"h","/","m","/","s","a","v","e","/">>
        /\ calls[c].fetched[1].body =
               FormData(<< <<"__json__", JStr(<<"{","\"","k","\"",":","1","}">>)>>,
                           <<"file", FileObj("F")>> >>)

\* JSON.stringify of an IFileData payload.
PayloadJson(p) ==
    <<"{","\"","d","a","t","a","\"",":","[">>
    \o Join([i \in 1..Len(p.data) |-> ToDec(p.data[i])], <<",">>)
    \o <<"]",",","\"","c","o","n","t","e","n","t","T","y","p","e","\"",":","\"">>
    \o p.contentType \o <<"\"","}">>

\* JSON.parse of the text of an IFileData payload.
ParsePayload(text) ==
    LET close == CHOOSE i \in 1..Len(text) : text[i] = "]"
        inner == SubSeq(text, 10, close - 1)
        items == SplitOn(inner, ",")
    IN [t |-> "filedata",
        data |-> IF inner = <<>> THEN <<>>
                 ELSE [i \in 1..Len(items) |-> ParseDec(items[i])],
        contentType |-> SubSeq(text, close + 17, Len(text) - 2)]

IsFileSuccess(c) ==
    /\ Returned(c) /\ calls[c].helper = "RetrieveFileService"
    /\ HasResponse(c) /\ Is2xx(Status(c)) /\ ~RespBody(c).broken

DefaultsBody(h) ==
    h \in {"ListService", "ExecuteActionService", "ExecuteStaticActionService"}

\* C22: a List, ExecuteAction or ExecuteStaticAction call given no body or
\* parameters object sends a request whose body is the JSON text {} and not
\* an absent body.
C22_DefaultBody ==
    \A c \in Slots :
        (DefaultsBody(calls[c].helper) /\ calls[c].fetched # <<>>
         /\ calls[c].args.body.t \in {"undefined", "null"}) =>
            /\ calls[c].fetched[1].body = JStr(<<"{","}">>)
            /\ calls[c].fetched[1].method = "POST"

C22_Witness ==
    \E c \in Slots :
        /\ calls[c].helper = "ListService"
        /\ calls[c].args.body = Undefined
        /\ calls[c].fetched # <<>>
        /\ calls[c].fetched[1].body = JStr(<<"{","}">>)

\* Two values are equal as data: errors by name and message, whichever
\* objects they are.
SameData(v, w) ==
    IF v.t = "error" /\ w.t = "error" THEN v.name = w.name /\ v.msg = w.msg
    ELSE v.t # "error" /\ w.t # "error" /\ v = w

\* The backend and the network did the same for calls c and d.
SameAnswer(c, d) ==
    IF HasResponse(c) /\ HasResponse(d) THEN calls[c].resp = calls[d].resp
    ELSE /\ ~HasResponse(c) /\ ~HasResponse(d)
         /\ calls[c].outcome.state = calls[d].outcome.state
         /\ SameData(calls[c].outcome.v, calls[d].outcome.v)

StartsWith(s, prefix) ==
    Len(s) >= Len(prefix) /\ SubSeq(s, 1, Len(prefix)) = prefix

\* Every request of the client is made with the client's baseUrl and token.
UsesClientConfig ==
    \A c \in Slots :
        calls[c].fetched # <<>> =>
            /\ client.baseUrl.t = "string"
            /\ \/ StartsWith(calls[c].fetched[1].url, client.baseUrl.s)
               \/ StartsWith(calls[c].fetched[1].url \o <<"/">>, client.baseUrl.s)
            /\ EndsWith(calls[c].fetched[1].headers.Authorization, client.token)

\* C24: no step of a helper call or of a transport primitive, whether the
\* call succeeds, fails or is stopped by validation, changes the client's
\* baseUrl or token, and every request is made with them.
C24_ClientImmutable ==
    /\ []UsesClientConfig
    /\ [][client' = client]_vars

C24_Witness ==
    \E c \in Slots :
        /\ client = [baseUrl |-> JStr(<<"h","/">>), token |-> TEST_TOKEN]
        /\ Returned(c) /\ calls[c].helper = "SaveService"
        /\ HasResponse(c) /\ Status(c) = 404
        /\ Error(c) # Null
        /\ calls[c].fetched[1].headers.Authorization = STR_TOKEN \o TEST_TOKEN

\* The request of call c is the one its own arguments give.
OwnRequest(c) ==
    LET req == calls[c].fetched[1]
        a == calls[c].args
    IN /\ req.method = ConventionMethod(calls[c].helper)
       /\ req.url = JoinedUrl(c)
       /\ req.headers.Authorization = <<"T","o","k","e","n"," ">> \o client.token
       /\ req.body = IF calls[c].helper = "ListService"
                     THEN JStr(JsonStringify(IF Truthy(a.body) THEN a.body ELSE JObj(<<>>)))
                     ELSE Undefined

\* The pair of call c is the one its own response, or the rejection of its
\* own fetch, gives.
OwnResult(c) ==
    IF HasResponse(c)
    THEN CASE Status(c) = 200 ->
                /\ Error(c) = Null
                /\ JsonStringify(Value(c)) = RespBody(c).text
           [] Status(c) = 204 -> calls[c].result = <<Null, Null>>
           [] OTHER ->
                /\ Value(c) = Null
                /\ Error(c).t = "error"
                /\ Error(c).oid[1] = c
                /\ Error(c).msg = ApiErrorForm(calls[c].resp[1])
    ELSE /\ Value(c) = Null
         /\ Error(c) = (IF Truthy(calls[c].outcome.v) THEN calls[c].outcome.v ELSE Null)
         /\ Error(c).t = "error" => Error(c).oid[1] = c

IndependentCalls ==
    \A c \in Slots :
        /\ calls[c].fetched # <<>> => (Len(calls[c].fetched) = 1 /\ OwnRequest(c))
        /\ Returned(c) => OwnResult(c)

\* A step of one call leaves every other call as it is.
OneCallSteps ==
    \A c, d \in Slots : c # d => (calls'[c] = calls[c] \/ calls'[d] = calls[d])

\* C25: with several helper calls in flight on one client, answered in any
\* order, the request of each call is the one its own arguments give, its
\* pair the one its own response gives, and a step of one call (its start,
\* its response, its return) changes nothing of another call.
C25_CallsIndependent ==
    /\ []IndependentCalls
    /\ [][OneCallSteps]_vars

C25_Witness ==
    \E c, d \in Slots :
        /\ c # d
        /\ calls[c].helper = "ListService" /\ calls[c].pc = "responded"
        /\ Status(c) = 404
        /\ calls[d].helper = "RetrieveService" /\ calls[d].pc = "settled"
        /\ HasResponse(d) /\ Status(d) = 200
        /\ calls[d].outcome = Resolved(JObj(<< <<<<"i","d">>, JNum(1)>> >>))
        /\ calls[c].fetched # calls[d].fetched

\* The fetch of call c was rejected.
FetchRejected(c) ==
    /\ calls[c].fetched # <<>> /\ ~HasResponse(c)
    /\ calls[c].outcome.state = "rejected"

\* The body of the 2xx, non-204 response of a JSON or upload call cannot be
\* read or parsed as JSON.
JsonBodyFails(c) ==
    /\ HasResponse(c) /\ JsonPrim(c) /\ Is2xx(Status(c)) /\ Status(c) # 204
    /\ (RespBody(c).broken \/ ~(\E v \in JsonValues : JsonStringify(v) = RespBody(c).text))

C27_RejectionGivesError ==
    \A c \in Slots :
        (Returned(c) /\ calls[c].outcome.state = "rejected") => Error(c) # Null

\* Where an event stands in the order validation, baseUrl check, fetch.
EventRank(e) ==
    CASE e = "validate" -> 1
      [] e = "baseUrl" -> 2
      [] e = "fetch" -> 3

Validates(h) == h \in {"UploadFileService", "RetrieveFileService"}

IsCodedHelperCall(c) ==
    calls[c].helper \in {"ListService", "RetrieveService", "RetrieveFileService",
                         "SaveService", "DeleteService", "UploadFileService"}

\* C28: in every call of List, Retrieve, RetrieveFile, Save, Delete or
\* UploadFile the events come in the order validation, baseUrl check, fetch,
\* each at most once, the fetch only after a baseUrl check and, in UploadFile
\* and RetrieveFile, these only after the validation; UploadFile without a
\* file and RetrieveFile with an empty fileField return their validation
\* error, with no baseUrl check and no fetch, also on a client without a
\* baseUrl.
C28_ValidationFirst ==
    \A c \in Slots :
        (Started(c) /\ IsCodedHelperCall(c)) =>
            LET ev == calls[c].events
                a == calls[c].args
            IN /\ \A i, j \in 1..Len(ev) : i < j => EventRank(ev[i]) < EventRank(ev[j])
               /\ (\E i \in 1..Len(ev) : ev[i] = "fetch") <=> calls[c].fetched # <<>>
               /\ (\E i \in 1..Len(ev) : ev[i] = "fetch") =>
                      (\E i \in 1..Len(ev) : ev[i] = "baseUrl")
               /\ (Validates(calls[c].helper) /\ ev # <<>>) => ev[1] = "validate"
               /\ ~Validates(calls[c].helper) =>
                      ~(\E i \in 1..Len(ev) : ev[i] = "validate")
               /\ (calls[c].helper = "UploadFileService" /\ ~Truthy(a.file)) =>
                      /\ ev = <<"validate">>
                      /\ Returned(c)
                      /\ Error(c).msg =
                             <<"U","p","l","o","a","d","F","i","l","e","S","e","r","v","i","c",
                               "e",":"," ","f","i","l","e"," ","i","s"," ","r","e","q","u","i",
                               "r","e","d">>
               /\ (calls[c].helper = "RetrieveFileService" /\ a.fileField = JStr(<<>>)) =>
                      /\ ev = <<"validate">>
                      /\ Returned(c)
                      /\ Contains(Error(c).msg,
                                  <<"f","i","l","e","F","i","e","l","d"," ","i","s"," ",
                                    "r","e","q","u","i","r","e","d">>)

C28_Witness ==
    \E c \in Slots :
        /\ client.baseUrl = JStr(<<>>)
        /\ Returned(c) /\ calls[c].helper = "RetrieveFileService"
        /\ OnClient(c)
        /\ calls[c].args.fileField = JStr(<<>>)
        /\ calls[c].events = <<"validate">>
        /\ Error(c).msg = MSG_FILEFIELD_REQUIRED

IsFileCall(c) == calls[c].helper = "RetrieveFileService"

\* C29 as stated: on every 2xx response, 204 included, whose body can be
\* read, a RetrieveFile call returns (payload, null), the payload holding
\* the bytes of the body (none for an empty body) and the content type; and
\* every pair a RetrieveFile call returns has exactly one non-null element,
\* so none is (null, null).
C29_AlwaysPayload ==
    \A c \in Slots :
        (Returned(c) /\ IsFileCall(c)) =>
            /\ (HasResponse(c) /\ Is2xx(Status(c)) /\ ~RespBody(c).broken) =>
                   /\ Error(c) = Null
                   /\ Value(c) = [t |-> "filedata", data |-> RespBody(c).bytes,
                                  contentType |-> RespBody(c).ctype]
            /\ (Value(c) = Null) # (Error(c) = Null)

\* The body argument the helper of call c hands to request: Save its body as
\* given, List and the action helpers their body or {} in its place, Retrieve
\* and Delete none.
BodyArgument(c) ==
    LET h == calls[c].helper
        b == calls[c].args.body
    IN CASE h = "SaveService" -> b
         [] DefaultsBody(h) -> (IF Truthy(b) THEN b ELSE JObj(<<>>))
         [] OTHER -> Undefined

\* C30 as stated: a JSON request handed a body argument, whatever JSON value
\* it is (an object, 0, false, "" or null), is sent with the JSON text of
\* that value as its body; a JSON request handed no body is sent without one.
C30_BodySentWhenPresent ==
    \A c \in Slots :
        (calls[c].prim = "request" /\ calls[c].fetched # <<>>) =>
            calls[c].fetched[1].body =
                (IF BodyArgument(c) = Undefined
                 THEN Undefined
                 ELSE JStr(JsonStringify(BodyArgument(c))))
====
